---- MODULE Spec2Model ----
(***************************************************************************)
(* Verification model of the fraud_watch risk scoring code:                *)
(*   backend/fraud_engine.py  calculate_fraud_risk   (the rule engine)     *)
(*   backend/main.py          DataLoader.calculate_fraud_risk (API scorer) *)
(*                                                                         *)
(* Numbers.  Scores are in points.  A classifier probability is k/20, so   *)
(* that ml_prob = p*100 = 5k and its contribution ml_prob*0.2 = k are      *)
(* integers.  Quartiles are carried multiplied by 4 and the IQR fences     *)
(* multiplied by 8; the CV test std/mean > 1.5 is carried squared.  Float  *)
(* rounding is not modelled.                                               *)
(*                                                                         *)
(* Python values.  A value that may or may not be a number is a record     *)
(* [t, n]: Num(n) is the number n, NonNumeric a string such as "abc".      *)
(* A dictionary is a function whose DOMAIN holds the keys present.         *)
(***************************************************************************)
EXTENDS Integers, Sequences, FiniteSets, TLC

VARIABLES call, frame, result, server, ingest

vars == <<call, frame, result, server, ingest>>

(***************************************************************************)
(* Bounds of the explored inputs                                           *)
(***************************************************************************)
MaxPayments == 4

Num(n) == [t |-> "num", n |-> n]

NonNumeric == [t |-> "str", n |-> 0]

IsNum(x) == x.t = "num"

Absent == "<absent>"

Amounts == {0, 10, 1000}

Revenues == {0, 10000, 150000, 600000}

Capacities == {0, 2}

Statuses == {"Active", "Inactive", "NotFound"}

Eins == {"411240047", "123456789"}

\* fourteen payments of 10 and one of 10000
ScenarioD == [i \in 1..15 |-> IF i = 15 THEN 10000 ELSE 10]

SeqsUpTo(S, n) == UNION {[1..k -> S] : k \in 0..n}

\* payment lists as dictionaries' 'amount' values
ValidAmountLists == SeqsUpTo(Amounts, MaxPayments) \cup {ScenarioD}

Payments(amts) == [i \in 1..Len(amts) |-> [amount |-> amts[i], date |-> "2024-01-01"]]

ValidPayments == {Payments([i \in 1..Len(a) |-> Num(a[i])]) : a \in ValidAmountLists}

AnyPayments ==
    {Payments(a) : a \in SeqsUpTo({Num(x) : x \in Amounts} \cup {NonNumeric}, MaxPayments)}
        \cup ValidPayments

(***************************************************************************)
(* Python helpers                                                          *)
(***************************************************************************)
\* dict.get(key, default)
Get(d, key, default) == IF key \in DOMAIN d THEN d[key] ELSE default

\* str.lower() on the status vocabulary
Lower(s) ==
    CASE s = "Active" -> "active"
      [] s = "Inactive" -> "inactive"
      [] s = "NotFound" -> "notfound"
      [] s = "Unknown" -> "unknown"
      [] OTHER -> s

\* str.upper() on the status vocabulary
Upper(s) ==
    CASE s = "Active" -> "ACTIVE"
      [] s = "Inactive" -> "INACTIVE"
      [] s = "NotFound" -> "NOTFOUND"
      [] s = "Unknown" -> "UNKNOWN"
      [] OTHER -> s

Range(s) == {s[i] : i \in DOMAIN s}

RECURSIVE SumSeq(_)
SumSeq(s) == IF s = <<>> THEN 0 ELSE Head(s) + SumSeq(Tail(s))

RECURSIVE Insert(_, _)
Insert(x, s) ==
    IF s = <<>> THEN <<x>>
    ELSE IF x <= Head(s) THEN <<x>> \o s
    ELSE <<Head(s)>> \o Insert(x, Tail(s))

RECURSIVE Sorted(_)
Sorted(s) == IF s = <<>> THEN <<>> ELSE Insert(Head(s), Sorted(Tail(s)))

\* "; ".join(factors)
RECURSIVE Join(_)
Join(fs) ==
    IF fs = <<>> THEN ""
    ELSE IF Len(fs) = 1 THEN fs[1]
    ELSE fs[1] \o "; " \o Join(Tail(fs))

\* the engine's data dictionary; an Absent status or ein is a missing key
MkData(rev, cap, st, ein, pays) ==
    LET keys == {"revenue", "capacity", "payments"}
                  \cup (IF st = Absent THEN {} ELSE {"status"})
                  \cup (IF ein = Absent THEN {} ELSE {"ein"})
    IN [k \in keys |->
          CASE k = "revenue" -> rev
            [] k = "capacity" -> cap
            [] k = "payments" -> pays
            [] k = "status" -> st
            [] k = "ein" -> ein]

(***************************************************************************)
(* backend/fraud_engine.py                                                 *)
(***************************************************************************)
EXCLUDED_EINS == {"411240047", "999999999"}

F1 == "CRITICAL: Excluded entity receiving payments"

F2 == "Inactive entity receiving payments"

F3 == "Suspicious payment frequency (High revenue with few payments)"

F4 == "Outlier payment amounts detected (IQR method)"

\* the source formats the CV value into this factor; the value is left out
F5 == "High payment variance (CV)"

\* the source formats ml_prob into this factor; the value is left out
FML == "ML Classifier High Risk Flag"

\* a score that is no float: float('nan'), or a complex number
NaN == [t |-> "nan", n |-> 0]

Complex(n) == [t |-> "complex", n |-> n]

\* score += x, for a float x
AddScore(score, x) == IF IsNum(score) THEN Num(score.n + x) ELSE score

\* the locals of calculate_fraud_risk; exc: an exception is propagating
Locals0 == [score |-> Num(0), factors |-> <<>>, exc |-> FALSE]

\* a factor put at the front of the list
TriggerPrepend(L, points, factor) ==
    [L EXCEPT !.score = AddScore(L.score, points), !.factors = <<factor>> \o L.factors]

Trigger(L, points, factor) ==
    [L EXCEPT !.score = AddScore(L.score, points), !.factors = Append(L.factors, factor)]

Raise(L) == [L EXCEPT !.exc = TRUE]

revenueOf(data) == Get(data, "revenue", Num(0))

paymentsOf(data) == Get(data, "payments", <<>>)

\* amounts = [p['amount'] for p in payments]
amountsOf(data) == [i \in 1..Len(paymentsOf(data)) |-> paymentsOf(data)[i].amount]

AllNumeric(amounts) == \A i \in 1..Len(amounts) : IsNum(amounts[i])

Values(amounts) == [i \in 1..Len(amounts) |-> amounts[i].n]

\* rule 1 worth 40 points
Rule1FortyPoints(data, L) ==
    IF L.exc THEN L
    ELSE IF Get(data, "ein", "") \notin EXCLUDED_EINS THEN L
    ELSE IF ~IsNum(revenueOf(data)) THEN Raise(L)
    ELSE IF revenueOf(data).n > 0 THEN Trigger(L, 40, F1)
    ELSE L

\* 1. ein in EXCLUDED_EINS and revenue > 0 ('and' short-circuits; str > int raises)
Rule1(data, L) ==
    IF L.exc THEN L
    ELSE IF Get(data, "ein", "") \notin EXCLUDED_EINS THEN L
    ELSE IF ~IsNum(revenueOf(data)) THEN Raise(L)
    ELSE IF revenueOf(data).n > 0 THEN Trigger(L, 50, F1)
    ELSE L

\* rule 2 reading data['status']: a missing key raises KeyError
Rule2KeyError(data, L) ==
    IF L.exc THEN L
    ELSE IF "status" \notin DOMAIN data THEN Raise(L)
    ELSE IF Lower(data["status"]) = "active" THEN L
    ELSE IF ~IsNum(revenueOf(data)) THEN Raise(L)
    ELSE IF revenueOf(data).n > 0 THEN Trigger(L, 25, F2)
    ELSE L

\* 2. status != 'active' and revenue > 0
Rule2(data, L) ==
    IF L.exc THEN L
    ELSE IF Lower(Get(data, "status", "Unknown")) = "active" THEN L
    ELSE IF ~IsNum(revenueOf(data)) THEN Raise(L)
    ELSE IF revenueOf(data).n > 0 THEN Trigger(L, 25, F2)
    ELSE L

\* rule 3 with the payment count compared by <= 3
Rule3OffByOne(data, L) ==
    IF L.exc THEN L
    ELSE IF ~(Len(paymentsOf(data)) <= 3) THEN L
    ELSE IF ~IsNum(revenueOf(data)) THEN Raise(L)
    ELSE IF revenueOf(data).n > 100000 THEN Trigger(L, 10, F3)
    ELSE L

\* 3. len(payments) < 3 and revenue > 100_000
Rule3(data, L) ==
    IF L.exc THEN L
    ELSE IF ~(Len(paymentsOf(data)) < 3) THEN L
    ELSE IF ~IsNum(revenueOf(data)) THEN Raise(L)
    ELSE IF revenueOf(data).n > 100000 THEN Trigger(L, 10, F3)
    ELSE L

\* 4 * np.percentile(a, 25 * q), linear interpolation between closest ranks
Percentile4(a, q) ==
    LET s == Sorted(a)
        pos == (Len(s) - 1) * q
        i == pos \div 4
        r == pos % 4
    IN IF r = 0 THEN 4 * s[i + 1] ELSE (4 - r) * s[i + 1] + r * s[i + 2]

\* the outlier test with the upper fence forgotten
HasOutlierLowerOnly(a) ==
    LET q1 == Percentile4(a, 1)
        q3 == Percentile4(a, 3)
        iqr == q3 - q1
        lower_bound == 2 * q1 - 3 * iqr
    IN \E i \in 1..Len(a) : 8 * a[i] < lower_bound

\* any(a > q3 + 1.5*iqr or a < q1 - 1.5*iqr for a in amounts), all times 8
HasOutlier(a) ==
    LET q1 == Percentile4(a, 1)
        q3 == Percentile4(a, 3)
        iqr == q3 - q1
        upper_bound == 2 * q3 + 3 * iqr
        lower_bound == 2 * q1 - 3 * iqr
    IN \E i \in 1..Len(a) : 8 * a[i] > upper_bound \/ 8 * a[i] < lower_bound

\* rule 4 without its guard on the payment count: np.percentile raises on
\* an empty list
Rule4Unguarded(data, L) ==
    IF L.exc THEN L
    ELSE IF Len(paymentsOf(data)) = 0 THEN Raise(L)
    ELSE IF ~AllNumeric(amountsOf(data)) THEN Raise(L)
    ELSE IF HasOutlier(Values(amountsOf(data))) THEN Trigger(L, 5, F4)
    ELSE L

\* 4. Outlier amounts (IQR method); np.percentile raises on a non-numeric amount
Rule4(data, L) ==
    IF L.exc THEN L
    ELSE IF ~(Len(paymentsOf(data)) >= 4) THEN L
    ELSE IF ~AllNumeric(amountsOf(data)) THEN Raise(L)
    ELSE IF HasOutlier(Values(amountsOf(data))) THEN Trigger(L, 5, F4)
    ELSE L

\* the variance test with the threshold 0.5 in place of 1.5
HighCVLowThreshold(a) ==
    LET n == Len(a)
        S == SumSeq(a)
        Q == SumSeq([i \in 1..n |-> a[i] * a[i]])
    IN S > 0 /\ n * Q - S * S > (S * S) \div 4

\* mean_val > 0 and std_dev / mean_val > 1.5, with n = len(a), S = sum(a),
\* Q = sum of squares: std^2 / mean^2 = (n*Q - S*S) / (S*S) > 9/4
HighCV(a) ==
    LET n == Len(a)
        S == SumSeq(a)
        Q == SumSeq([i \in 1..n |-> a[i] * a[i]])
    IN S > 0 /\ n * Q - S * S > (9 * S * S) \div 4

\* 5. High payment variance (CV > 1.5); np.std raises on a non-numeric amount
Rule5(data, L) ==
    IF L.exc THEN L
    ELSE IF ~(Len(paymentsOf(data)) > 1) THEN L
    ELSE IF ~AllNumeric(amountsOf(data)) THEN Raise(L)
    ELSE IF HighCV(Values(amountsOf(data))) THEN Trigger(L, 5, F5)
    ELSE L

\* what ml_model.predict_proba(features)[0][1] evaluates to
NoModel == [kind |-> "none", k |-> 0]

\* a classifier returning probability k/20
Proba(k) == [kind |-> "proba", k |-> k]

\* predict_proba raises; its row has no index 1; its entry is a string,
\* float('nan'), or a complex number (k/20 + 0j)
FailingModel(kind, k) == [kind |-> kind, k |-> k]

\* the try block of the ML integration, lines 72-87; every exception raised in
\* it is caught, and the assignments made before it stay
MLBlend(data, ml_model, L) ==
    IF L.exc THEN L
    ELSE IF ml_model = NoModel \/ ~(Len(paymentsOf(data)) > 0) THEN L
    \* revenue / len(payments) raises on a non-numeric revenue
    ELSE IF ~IsNum(revenueOf(data)) THEN L
    \* line 82: predict_proba raises, or [0][1] raises IndexError
    ELSE IF ml_model.kind \in {"raises", "short"} THEN L
    \* line 83: str * float raises TypeError
    ELSE IF ml_model.kind = "text" THEN L
    \* line 83 adds nan; line 84: nan > 80 is False
    ELSE IF ml_model.kind = "nan" THEN [L EXCEPT !.score = NaN]
    \* line 83 adds the complex number; line 84: complex > int raises TypeError
    ELSE IF ml_model.kind = "complex"
         THEN [L EXCEPT !.score = Complex(L.score.n + ml_model.k)]
    ELSE LET ml_prob == 5 * ml_model.k
             L1 == [L EXCEPT !.score = AddScore(L.score, ml_prob \div 5)]
         IN IF ml_prob > 80 THEN [L1 EXCEPT !.factors = Append(L1.factors, FML)]
            ELSE L1

Min(a, b) == IF a <= b THEN a ELSE b

\* the locals when line 89 is reached
Evaluate(data, ml_model) ==
    MLBlend(data, ml_model,
        Rule5(data, Rule4(data, Rule3(data, Rule2(data, Rule1(data, Locals0))))))

\* a return without the ceiling
CapMissing(score) == score

\* final_score = min(score, 100.0): min(nan, 100.0) is nan, min of a complex raises
Cap(score) == IF IsNum(score) THEN Num(Min(score.n, 100)) ELSE score

Raised == [kind |-> "raise", score |-> Num(0), factors |-> ""]

\* return float(final_score), "; ".join(factors)
Return(L) ==
    IF L.exc \/ L.score.t = "complex" THEN Raised
    ELSE [kind |-> "return", score |-> Cap(L.score), factors |-> Join(L.factors)]

calculate_fraud_risk(data, ml_model) == Return(Evaluate(data, ml_model))

(***************************************************************************)
(* backend/main.py, DataLoader.calculate_fraud_risk                        *)
(* A string is a sequence of characters.  payment_variance is in tenths.   *)
(***************************************************************************)
DigitChars == {"0", "1", "2", "3", "4", "5", "6", "7", "8", "9"}

DigitValue(c) ==
    CASE c = "0" -> 0 [] c = "1" -> 1 [] c = "2" -> 2 [] c = "3" -> 3 [] c = "4" -> 4
      [] c = "5" -> 5 [] c = "6" -> 6 [] c = "7" -> 7 [] c = "8" -> 8 [] c = "9" -> 9

IsDigit(c) == c \in DigitChars

\* int(digits) of a non-empty string of digits
RECURSIVE ToInt(_)
ToInt(digits) ==
    IF digits = <<>> THEN 0
    ELSE 10 * ToInt(SubSeq(digits, 1, Len(digits) - 1)) + DigitValue(digits[Len(digits)])

\* int(''.join(filter(str.isdigit, capacity_str))) if capacity_str else 0;
\* -1 stands for the ValueError int('') raises, which the except clause catches
ParseCapacity(capacity_str) ==
    IF capacity_str = <<>> THEN 0
    ELSE IF SelectSeq(capacity_str, IsDigit) = <<>> THEN -1
    ELSE ToInt(SelectSeq(capacity_str, IsDigit))

\* Factor 1: inactive license but receiving payments
InactivePayments(row, spending_data) ==
    /\ Upper(Get(row, "License Status", "")) # "ACTIVE"
    /\ Get(spending_data, "total_spending", 0) > 0

\* Factor 2: payment_variance > 0.7
HighVariance(spending_data) == Get(spending_data, "payment_variance", 0) > 7

\* Factor 3: more than 3 payments with mean > 0 and cv > 1.5
UnusualPatterns(spending_data) ==
    LET payments == Get(spending_data, "payments", <<>>)
        amounts == [i \in 1..Len(payments) |-> payments[i].amount.n]
    IN Len(payments) > 3 /\ HighCV(amounts)

\* Factor 4: len(payments) < 2 and total_spending > 100000
SuspiciousFreq(spending_data) ==
    /\ Len(Get(spending_data, "payments", <<>>)) < 2
    /\ Get(spending_data, "total_spending", 0) > 100000

\* Factor 5
OutlierAmounts(spending_data) == Get(spending_data, "has_outliers", FALSE)

\* Factor 6: capacity > 0 and avg_payment > 0 and avg_payment / capacity > 50000
CapacityMismatch(row, spending_data) ==
    LET capacity == ParseCapacity(Get(row, "Capacity", <<"0">>))
        avg_payment == Get(spending_data, "avg_payment", 0)
    IN capacity > 0 /\ avg_payment > 0 /\ avg_payment > 50000 * capacity

Points(flag, points) == IF flag THEN points ELSE 0

RiskScore(row, spending_data) ==
    Points(InactivePayments(row, spending_data), 40)
        + Points(HighVariance(spending_data), 20)
        + Points(UnusualPatterns(spending_data), 15)
        + Points(SuspiciousFreq(spending_data), 10)
        + Points(OutlierAmounts(spending_data), 10)
        + Points(CapacityMismatch(row, spending_data), 5)

\* the boundaries made exclusive
RiskCategoryExclusive(risk_score) ==
    IF risk_score > 50 THEN "High"
    ELSE IF risk_score > 25 THEN "Medium"
    ELSE "Low"

RiskCategory(risk_score) ==
    IF risk_score >= 50 THEN "High"
    ELSE IF risk_score >= 25 THEN "Medium"
    ELSE "Low"

\* round(risk_score, 2): risk_score is a sum of whole points
Round2(risk_score) == risk_score

ApiCalculateFraudRisk(row, spending_data) ==
    [fraud_risk_score |-> Round2(RiskScore(row, spending_data)),
     risk_category |-> RiskCategory(RiskScore(row, spending_data)),
     fraud_indicators |->
        [inactive_license_payments |-> InactivePayments(row, spending_data),
         high_payment_variance |-> HighVariance(spending_data),
         unusual_payment_patterns |-> UnusualPatterns(spending_data),
         suspicious_frequency |-> SuspiciousFreq(spending_data),
         outlier_amounts |-> OutlierAmounts(spending_data),
         capacity_mismatch |-> CapacityMismatch(row, spending_data)]]

\* generate_mock_spending, "Check for outliers": has_outliers of a payment list
MockHasOutliers(amounts) == IF Len(amounts) > 3 THEN HasOutlier(amounts) ELSE FALSE

\* a licensing row; an Absent value is a missing column
MkRow(status, capacity) ==
    LET keys == (IF status = Absent THEN {} ELSE {"License Status"})
                  \cup (IF capacity = <<Absent>> THEN {} ELSE {"Capacity"})
    IN [k \in keys |-> IF k = "Capacity" THEN capacity ELSE status]

CapacityStrs ==
    {<<"0">>, <<"2">>, <<"N", "/", "A">>, <<"2", " ", "k", "i", "d", "s">>, <<>>, <<Absent>>}

(***************************************************************************)
(* The calls                                                               *)
(***************************************************************************)
Idle == [fn |-> "none"]

ProbSteps == {0, 10, 16, 17, 20}

Models ==
    {Proba(k) : k \in ProbSteps}
        \cup {FailingModel(x, 0) : x \in {"raises", "short", "text", "nan"}}
        \cup {FailingModel("complex", 18)}

\* the API process before its startup event, and no ingestion run
ServerInit ==
    [licensing_df |-> [loaded |-> FALSE, rows |-> <<>>],
     pc |-> "read_licensing", serving |-> FALSE, hash_seed |-> 0]

IngestInit ==
    [pc |-> "idle", stored0 |-> {}, stored |-> {}, pending |-> <<>>, results |-> <<>>,
     orgs |-> <<>>, page |-> 0, limit |-> 0, autoflush |-> FALSE, commits |-> 0,
     closed |-> FALSE, raised |-> "none"]

Init ==
    /\ call = Idle
    /\ frame = Idle
    /\ result = Idle
    /\ server = ServerInit
    /\ ingest = IngestInit

\* calculate_fraud_risk(risk_data), as backend/etl/ingest.py calls it, on a
\* dictionary that was not validated
Score ==
    /\ call = Idle
    /\ \E rev \in {Num(r) : r \in Revenues} \cup {NonNumeric},
          cap \in Capacities,
          st \in Statuses \cup {Absent},
          ein \in Eins \cup {Absent},
          pays \in AnyPayments :
          LET data == MkData(rev, cap, st, ein, pays)
          IN /\ call' = [fn |-> "engine", data |-> data, ml_model |-> NoModel]
             /\ frame' = Evaluate(data, NoModel)
             /\ result' = calculate_fraud_risk(data, NoModel)
             /\ UNCHANGED <<server, ingest>>

\* calculate_fraud_risk(data, ml_model) on a validated dictionary
ScoreWithModel ==
    /\ call = Idle
    /\ \E rev \in {Num(r) : r \in Revenues},
          cap \in Capacities,
          st \in Statuses \cup {Absent},
          ein \in Eins \cup {Absent},
          pays \in ValidPayments,
          ml_model \in Models :
          LET data == MkData(rev, cap, st, ein, pays)
          IN /\ call' = [fn |-> "engine", data |-> data, ml_model |-> ml_model]
             /\ frame' = Evaluate(data, ml_model)
             /\ result' = calculate_fraud_risk(data, ml_model)
             /\ UNCHANGED <<server, ingest>>

\* the caller takes the result
Done ==
    /\ call # Idle
    /\ call' = Idle
    /\ frame' = Idle
    /\ result' = Idle
    /\ UNCHANGED <<server, ingest>>

\* data_loader.calculate_fraud_risk(row, spending_data), as get_establishments
\* calls it
ApiScore ==
    /\ call = Idle
    /\ \E status \in {"Active", "Inactive", Absent},
          capacity \in CapacityStrs,
          total_spending \in {0, 150000, 600000},
          payment_variance \in {5, 8},
          payments \in ValidPayments,
          has_outliers \in BOOLEAN,
          avg_payment \in {0, 200000} :
          LET row == MkRow(status, capacity)
              spending_data ==
                  [total_spending |-> total_spending,
                   payment_variance |-> payment_variance,
                   payments |-> payments,
                   has_outliers |-> has_outliers,
                   avg_payment |-> avg_payment]
          IN /\ call' = [fn |-> "api", row |-> row, spending_data |-> spending_data]
             /\ frame' = Idle
             /\ result' = ApiCalculateFraudRisk(row, spending_data)
             /\ UNCHANGED <<server, ingest>>

Next == Score \/ ScoreWithModel \/ ApiScore \/ Done

Spec == Init /\ [][Next]_vars

(***************************************************************************)
(* backend/ml/benford.py                                                   *)
(* A number is the record [t |-> "num", text |-> str(abs(number))], its    *)
(* text a sequence of characters; frequencies are counts over total_count, *)
(* the Benford frequencies log10(1 + 1/d) are in ten-thousandths.          *)
(***************************************************************************)
MaxSample == 3

Number(text) == [t |-> "num", text |-> text]

NotANumber == [t |-> "str", text |-> <<"a", "b", "c">>]

NonZeroDigitChars == {"1", "2", "3", "4", "5", "6", "7", "8", "9"}

\* 0, 0.0, 0.05, 10, -250.5, 907, 1e-05 and the string 'abc'
BenfordAmounts ==
    {Number(<<"0">>), Number(<<"0", ".", "0">>), Number(<<"0", ".", "0", "5">>),
     Number(<<"1", "0">>), Number(<<"2", "5", "0", ".", "5">>), Number(<<"9", "0", "7">>),
     Number(<<"1", "e", "-", "0", "5">>), NotANumber}

NotDot(c) == c # "."

\* for char in s: if char in '123456789': return int(char); return 0
RECURSIVE FirstNonZeroDigit(_)
FirstNonZeroDigit(s) ==
    IF s = <<>> THEN 0
    ELSE IF Head(s) \in NonZeroDigitChars THEN DigitValue(Head(s))
    ELSE FirstNonZeroDigit(Tail(s))

\* the leading digit read from the first character only
get_leading_digit_first_char(number) ==
    IF number.t # "num" THEN 0
    ELSE IF Head(number.text) \in NonZeroDigitChars THEN DigitValue(Head(number.text))
    ELSE 0

\* abs() of a non-number raises TypeError, which the bare except turns into 0
get_leading_digit(number) ==
    IF number.t # "num" THEN 0
    ELSE FirstNonZeroDigit(SelectSeq(number.text, NotDot))

IsValidDigit(d) == d > 0

\* 10000 * log10(1 + 1/d), rounded
benford_freq(d) ==
    CASE d = 1 -> 3010 [] d = 2 -> 1761 [] d = 3 -> 1249 [] d = 4 -> 969 [] d = 5 -> 792
      [] d = 6 -> 669 [] d = 7 -> 580 [] d = 8 -> 512 [] d = 9 -> 458

Abs(x) == IF x < 0 THEN -x ELSE x

\* value_counts() of one digit
CountOf(digits, d) == Cardinality({i \in 1..Len(digits) : digits[i] = d})

NoReport == [kind |-> "None"]

calculate_benford_deviation(amounts) ==
    LET leading_digit == [i \in 1..Len(amounts) |-> get_leading_digit(amounts[i])]
        valid_digits == SelectSeq(leading_digit, IsValidDigit)
        total_count == Len(valid_digits)
    IN IF total_count = 0 THEN NoReport
       ELSE [kind |-> "DataFrame",
             rows |->
               [d \in 1..9 |->
                  [digit |-> d,
                   actual_count |-> CountOf(valid_digits, d),
                   total_count |-> total_count,
                   benford_freq |-> benford_freq(d),
                   is_anomaly |->
                      Abs(10000 * CountOf(valid_digits, d) - benford_freq(d) * total_count)
                          > 500 * total_count]]]

\* calculate_benford_deviation(df) on a frame of amounts
Benford ==
    /\ call = Idle
    /\ \E amounts \in SeqsUpTo(BenfordAmounts, MaxSample) :
          /\ call' = [fn |-> "benford", amounts |-> amounts]
          /\ frame' = Idle
          /\ result' = calculate_benford_deviation(amounts)
          /\ UNCHANGED <<server, ingest>>

BenfordNext == Benford \/ Done

SpecBenford == Init /\ [][BenfordNext]_vars

(***************************************************************************)
(* backend/main.py, the API process                                        *)
(* server.licensing_df is data_loader.licensing_df: None (loaded FALSE) or *)
(* a frame of rows.  server.pc is the place of the one thread running      *)
(* load_csv_data (the startup event, then POST /reload-data); endpoints    *)
(* are plain def functions, which FastAPI runs in a thread pool, so a GET  *)
(* is served while a reload is between two of its lines.  hash_seed is the *)
(* process's string hash seed, which seeds generate_mock_spending.         *)
(***************************************************************************)
MaxLimit == 3

NoFrame == [loaded |-> FALSE, rows |-> <<>>]

Frame(rows) == [loaded |-> TRUE, rows |-> rows]

CsvRow(license, city, type, status, capacity) ==
    [license |-> license, City |-> city, LicenseType |-> type,
     LicenseStatus |-> status, Capacity |-> capacity]

\* the rows a licensing CSV file may hold
CsvRows ==
    <<CsvRow(1, "Minneapolis", "Child Care Center", "Active", <<"2">>),
      CsvRow(2, "MINNEAPOLIS", "Family Child Care", "Inactive", <<"1", "0">>),
      CsvRow(3, "St Paul", "Child Care Center", "Active", <<"2">>),
      CsvRow(4, "Minneapolis", "Adult Foster Care", "Inactive", <<"0">>)>>

RECURSIVE PickRows(_, _)
PickRows(S, i) ==
    IF i > Len(CsvRows) THEN <<>>
    ELSE (IF i \in S THEN <<CsvRows[i]>> ELSE <<>>) \o PickRows(S, i + 1)

CsvFiles == {PickRows(S, 1) : S \in SUBSET (1..Len(CsvRows))}

\* str(n) of a digit
DigitChar(n) == CHOOSE c \in DigitChars : DigitValue(c) = n

\* f'{n}' of an integer 0..99
Str(n) == IF n < 10 THEN <<DigitChar(n)>> ELSE <<DigitChar(n \div 10), DigitChar(n % 10)>>

\* create_sample_data: 20 rows, license numbers 1000..1019, all Minneapolis
\* child care, the last 2 inactive, capacity f'{i*5}'
SampleData ==
    [j \in 1..20 |->
        CsvRow(1000 + (j - 1), "Minneapolis", "Child Care Center",
               IF j <= 18 THEN "Active" ELSE "Inactive", Str((j - 1) * 5))]

\* City.str.upper() == 'MINNEAPOLIS'
IsMinneapolis(row) == row.City \in {"Minneapolis", "MINNEAPOLIS", "minneapolis"}

\* License Type.str.contains('Child', case=False)
IsChildType(row) == row.LicenseType \in {"Child Care Center", "Family Child Care"}

KeepRow(row) == IsMinneapolis(row) /\ IsChildType(row)

\* generate_mock_spending(license_num, facility_name): the numpy generator is
\* seeded with hash(str(license_number)); two of the lists it can draw
generate_mock_spending(license, hash_seed) ==
    LET amounts == IF (license + hash_seed) % 2 = 0
                   THEN <<3000, 3000, 3000, 3000, 3000>>
                   ELSE <<1000, 1000, 1000, 1000, 9000>>
        variance == IF (license + hash_seed) % 2 = 0 THEN 5 ELSE 9
    IN [total_spending |-> SumSeq(amounts),
        payment_count |-> Len(amounts),
        avg_payment |-> SumSeq(amounts) \div Len(amounts),
        payment_variance |-> variance,
        payments |-> Payments([i \in 1..Len(amounts) |-> Num(amounts[i])]),
        has_outliers |-> MockHasOutliers(amounts)]

\* a query parameter: None, a value, or - when the endpoint function is called
\* as a plain function - its default, the fastapi Query(...) object
NoneParam == [t |-> "None", n |-> 0]

QueryObject == [t |-> "Query", n |-> 0]

establishment(row, hash_seed) ==
    LET spending_data == generate_mock_spending(row.license, hash_seed)
        risk_data ==
            ApiCalculateFraudRisk(
                [k \in {"License Status", "Capacity"} |->
                    IF k = "Capacity" THEN row.Capacity ELSE row.LicenseStatus],
                spending_data)
    IN [license_number |-> row.license,
        license_status |-> row.LicenseStatus,
        fraud_risk_score |-> risk_data.fraud_risk_score,
        risk_category |-> risk_data.risk_category]

\* "Apply filters" of get_establishments for one establishment: "raise",
\* "skip" or "keep".  float < Query object raises TypeError.
ApplyFilters(e, min_risk, max_risk) ==
    IF min_risk.t = "Query" THEN "raise"
    ELSE IF min_risk.t = "num" /\ e.fraud_risk_score < min_risk.n THEN "skip"
    ELSE IF max_risk.t = "Query" THEN "raise"
    ELSE IF max_risk.t = "num" /\ e.fraud_risk_score > max_risk.n THEN "skip"
    ELSE "keep"

ServerError == [status |-> 500, body |-> <<>>]

Ok(body) == [status |-> 200, body |-> body]

RECURSIVE FilterLoop(_, _, _, _, _)
FilterLoop(rows, hash_seed, min_risk, max_risk, results) ==
    IF rows = <<>> THEN Ok(results)
    ELSE LET e == establishment(Head(rows), hash_seed)
             f == ApplyFilters(e, min_risk, max_risk)
         IN IF f = "raise" THEN ServerError
            ELSE FilterLoop(Tail(rows), hash_seed, min_risk, max_risk,
                            IF f = "keep" THEN Append(results, e) ELSE results)

\* get_establishments(min_risk, max_risk, ...) reading data_loader.licensing_df
get_establishments(df, hash_seed, min_risk, max_risk) ==
    IF ~df.loaded THEN ServerError
    ELSE FilterLoop(df.rows, hash_seed, min_risk, max_risk, <<>>)

\* sorted(..., key=fraud_risk_score, reverse=True): stable
RECURSIVE InsertByScore(_, _)
InsertByScore(e, s) ==
    IF s = <<>> THEN <<e>>
    ELSE IF e.fraud_risk_score > Head(s).fraud_risk_score THEN <<e>> \o s
    ELSE <<Head(s)>> \o InsertByScore(e, Tail(s))

RECURSIVE SortedByScore(_)
SortedByScore(s) ==
    IF s = <<>> THEN <<>>
    ELSE InsertByScore(s[Len(s)], SortedByScore(SubSeq(s, 1, Len(s) - 1)))

\* get_high_risk_establishments(limit): get_establishments() is called as a
\* plain function, so its parameters are the Query(...) default objects
get_high_risk_establishments(df, hash_seed, limit) ==
    LET establishments == get_establishments(df, hash_seed, QueryObject, QueryObject)
    IN IF establishments.status # 200 THEN ServerError
       ELSE Ok(SubSeq(SortedByScore(establishments.body), 1,
                      Min(limit, Len(establishments.body))))

\* load_csv_data line 65: self.licensing_df = pd.read_csv(...), the whole file
ReadLicensing ==
    /\ server.pc = "read_licensing"
    /\ \E file \in CsvFiles, seed \in {0, 1} :
          server' = [server EXCEPT !.licensing_df = Frame(file),
                                   !.pc = "read_healthcare",
                                   !.hash_seed = IF server.serving THEN @ ELSE seed]
    /\ UNCHANGED <<call, frame, result, ingest>>

\* load_csv_data line 69: the healthcare file is read
ReadHealthcare ==
    /\ server.pc = "read_healthcare"
    /\ server' = [server EXCEPT !.pc = "filter"]
    /\ UNCHANGED <<call, frame, result, ingest>>

\* load_csv_data lines 73-76: the Minneapolis child-care rows are kept
FilterRows ==
    /\ server.pc = "filter"
    /\ server' = [server EXCEPT !.licensing_df = Frame(SelectSeq(@.rows, KeepRow)),
                                !.pc = "idle", !.serving = TRUE]
    /\ UNCHANGED <<call, frame, result, ingest>>

\* lines 80-83: either read_csv raises FileNotFoundError; create_sample_data
FileNotFound ==
    /\ server.pc \in {"read_licensing", "read_healthcare"}
    /\ server' = [server EXCEPT !.licensing_df = Frame(SampleData),
                                !.pc = "idle", !.serving = TRUE]
    /\ UNCHANGED <<call, frame, result, ingest>>

\* the healthcare file is there but cannot be parsed: read_csv raises
\* ParserError, which load_csv_data does not catch; a failed startup ends
\* the process, a failed reload answers 500
ReadHealthcareFails ==
    /\ server.pc = "read_healthcare"
    /\ server' = [server EXCEPT !.pc = IF server.serving THEN "idle" ELSE "exited"]
    /\ UNCHANGED <<call, frame, result, ingest>>

\* POST /reload-data calls load_csv_data
ReloadData ==
    /\ server.serving /\ server.pc = "idle"
    /\ server' = [server EXCEPT !.pc = "read_licensing"]
    /\ UNCHANGED <<call, frame, result, ingest>>

\* GET /establishments?min_risk=..., served at any point of a reload
GetEstablishments ==
    /\ server.serving /\ call = Idle
    /\ \E min_risk \in {NoneParam, Num(25)} :
          /\ call' = [fn |-> "GET /establishments", df |-> server.licensing_df,
                      min_risk |-> min_risk]
          /\ result' = get_establishments(server.licensing_df, server.hash_seed,
                                          min_risk, NoneParam)
    /\ frame' = Idle
    /\ UNCHANGED <<server, ingest>>

\* GET /high-risk?limit=..., served at any point of a reload
GetHighRisk ==
    /\ server.serving /\ call = Idle
    /\ \E limit \in 1..MaxLimit :
          /\ call' = [fn |-> "GET /high-risk", df |-> server.licensing_df,
                      limit |-> limit]
          /\ result' = get_high_risk_establishments(server.licensing_df,
                                                    server.hash_seed, limit)
    /\ frame' = Idle
    /\ UNCHANGED <<server, ingest>>

ServerNext ==
    \/ ReadLicensing \/ ReadHealthcare \/ FilterRows \/ FileNotFound
    \/ ReadHealthcareFails \/ ReloadData \/ GetEstablishments \/ GetHighRisk \/ Done

SpecServer == Init /\ [][ServerNext]_vars

(***************************************************************************)
(* backend/etl/ingest.py, get_minneapolis_child_care                       *)
(* ingest.stored is the set of EINs of the committed Provider rows,        *)
(* stored0 its value when the run started, pending the providers db.add    *)
(* put in the session, results the names collected (an organisation is     *)
(* named by its EIN here), orgs the rest of the page being walked, raised  *)
(* the step whose exception reached the except clause.                     *)
(***************************************************************************)
MaxPages == 2

MaxPageLen == 2

MaxIngestLimit == 2

\* an organisation of the API answer; fault "scoring": calculate_fraud_risk
\* raises for it
Org(ein, city, fault) == [ein |-> ein, city |-> city, fault |-> fault]

Orgs ==
    {Org("e1", "Minneapolis", "none"), Org("e2", "MINNEAPOLIS", "none"),
     Org("e1", "St Paul", "none"), Org("e2", "Minneapolis", "scoring")}

ApiPages == SeqsUpTo(Orgs, MaxPageLen)

\* str.lower() on the city names
CityLower(city) ==
    CASE city \in {"Minneapolis", "MINNEAPOLIS"} -> "minneapolis"
      [] city = "St Paul" -> "st paul"
      [] OTHER -> city

\* org.get("city", "").lower() == city_filter.lower()
CityMatches(org) == CityLower(org.city) = CityLower("minneapolis")

\* db.query(Provider).filter(Provider.ein == ein).first(): the committed rows,
\* and the pending ones when the session flushes before a query
existing(s, ein) == ein \in s.stored \/ (s.autoflush /\ ein \in Range(s.pending))

\* db.add(provider) commits nothing
db_add_autocommit(s, ein) ==
    [s EXCEPT !.pending = Append(@, ein), !.stored = @ \cup {ein}]

\* db.add(provider)
db_add(s, ein) == [s EXCEPT !.pending = Append(@, ein)]

\* the INSERTs of a flush violate license_number's unique=True: two pending
\* providers with one EIN, hence one license number f"LIC-{ein}"
UniqueViolation(s) ==
    \E i, j \in 1..Len(s.pending) : i # j /\ s.pending[i] = s.pending[j]

\* an exception inside the try block reaches `except Exception`
Raises(s, step) == [s EXCEPT !.pc = "except", !.raised = step]

\* results = []; db = SessionLocal()
StartRun ==
    /\ ingest.pc = "idle"
    /\ \E stored0 \in {{}, {"e1"}}, limit \in 1..MaxIngestLimit, autoflush \in BOOLEAN :
          ingest' = [IngestInit EXCEPT !.pc = "while", !.stored0 = stored0,
                                       !.stored = stored0, !.limit = limit,
                                       !.autoflush = autoflush]
    /\ UNCHANGED <<call, frame, result, server>>

\* while len(results) < limit
WhileTest ==
    /\ ingest.pc = "while"
    /\ ingest' = [ingest EXCEPT !.pc = IF Len(ingest.results) < ingest.limit
                                       THEN "fetch" ELSE "commit"]
    /\ UNCHANGED <<call, frame, result, server>>

\* requests.get, response.json(), data.get("organizations", []); an empty
\* page breaks out of the while loop
FetchPage ==
    /\ ingest.pc = "fetch"
    /\ \E orgs \in ApiPages :
          /\ ingest.page >= MaxPages => orgs = <<>>
          /\ ingest' = [ingest EXCEPT !.orgs = orgs,
                                      !.pc = IF orgs = <<>> THEN "commit" ELSE "for"]
    /\ UNCHANGED <<call, frame, result, server>>

\* requests.get or response.raise_for_status() raises
FetchRaises ==
    /\ ingest.pc = "fetch"
    /\ ingest' = Raises(ingest, "fetch")
    /\ UNCHANGED <<call, frame, result, server>>

\* response.json() raises
DecodeRaises ==
    /\ ingest.pc = "fetch"
    /\ ingest' = Raises(ingest, "decode")
    /\ UNCHANGED <<call, frame, result, server>>

\* one iteration of `for org in orgs`
ProcessOrg ==
    /\ ingest.pc = "for" /\ ingest.orgs # <<>>
    /\ LET org == Head(ingest.orgs)
           rest == [ingest EXCEPT !.orgs = Tail(@)]
           added == [db_add(rest, org.ein) EXCEPT !.results = Append(@, org.ein)]
       IN ingest' =
            IF ~CityMatches(org) THEN rest
            ELSE IF existing(ingest, org.ein) THEN rest
            ELSE IF org.fault = "scoring" THEN Raises(ingest, "scoring")
            ELSE IF Len(added.results) >= added.limit THEN [added EXCEPT !.orgs = <<>>]
            ELSE added
    /\ UNCHANGED <<call, frame, result, server>>

\* the for loop is over: params["page"] += 1
NextPage ==
    /\ ingest.pc = "for" /\ ingest.orgs = <<>>
    /\ ingest' = [ingest EXCEPT !.page = @ + 1, !.pc = "while"]
    /\ UNCHANGED <<call, frame, result, server>>

\* db.commit() succeeds
Commit ==
    /\ ingest.pc = "commit" /\ ~UniqueViolation(ingest)
    /\ ingest' = [ingest EXCEPT !.stored = @ \cup Range(ingest.pending),
                                !.pending = <<>>, !.commits = @ + 1, !.pc = "finally"]
    /\ UNCHANGED <<call, frame, result, server>>

\* db.commit() raises while writing the pending providers: a unique
\* violation, or the database fails
CommitRaises ==
    /\ ingest.pc = "commit" /\ ingest.pending # <<>>
    /\ ingest' = Raises(ingest, "commit")
    /\ UNCHANGED <<call, frame, result, server>>

\* except Exception: db.rollback()
Rollback ==
    /\ ingest.pc = "except"
    /\ ingest' = [ingest EXCEPT !.pending = <<>>, !.pc = "finally"]
    /\ UNCHANGED <<call, frame, result, server>>

\* finally: db.close()
Close ==
    /\ ingest.pc = "finally"
    /\ ingest' = [ingest EXCEPT !.closed = TRUE, !.pc = "done"]
    /\ UNCHANGED <<call, frame, result, server>>

\* get_minneapolis_child_care returns
RunEnds ==
    /\ ingest.pc = "done"
    /\ ingest' = IngestInit
    /\ UNCHANGED <<call, frame, result, server>>

IngestNext ==
    \/ StartRun \/ WhileTest \/ FetchPage \/ FetchRaises \/ DecodeRaises
    \/ ProcessOrg \/ NextPage \/ Commit \/ CommitRaises \/ Rollback \/ Close \/ RunEnds

SpecIngest == Init /\ [][IngestNext]_vars

(***************************************************************************)
(* Properties                                                              *)
(***************************************************************************)
EngineCall == call.fn = "engine"

ApiCall == call.fn = "api"

Returned == result.kind = "return"

\* the classifier is absent, or returns a probability
ProbabilityOrNone == call.ml_model.kind \in {"none", "proba"}

NumericInput ==
    /\ IsNum(revenueOf(call.data))
    /\ AllNumeric(amountsOf(call.data))

InputRevenue == call.data["revenue"].n

InputAmounts == Values(amountsOf(call.data))

InputExcluded ==
    /\ "ein" \in DOMAIN call.data
    /\ call.data["ein"] \in {"411240047", "999999999"}

InputNotActive == "status" \notin DOMAIN call.data \/ call.data["status"] # "Active"

\* C1: every score a scoring call returns is in [0,100]: the engine's, with
\* no classifier or whatever probability the classifier returns, and the API
\* scorer's, which has no clamp.
C1_ScoreInRange ==
    /\ (EngineCall /\ ProbabilityOrNone /\ Returned)
          => (IsNum(result.score) /\ result.score.n >= 0 /\ result.score.n <= 100)
    /\ ApiCall => (result.fraud_risk_score >= 0 /\ result.fraud_risk_score <= 100)

\* the clamp acts: the rules and the classifier add up to more than 100
C1_Witness ==
    /\ EngineCall /\ ProbabilityOrNone /\ Returned
    /\ frame.score.n > 100
    /\ result.score.n = 100

\* C2: the category the API scorer returns is a function of the score it
\* returns, with inclusive lower boundaries: >= 50 High, 25..49 Medium,
\* below 25 Low.
C2_CategoryOfScore ==
    ApiCall =>
        /\ result.fraud_risk_score >= 50 => result.risk_category = "High"
        /\ (result.fraud_risk_score >= 25 /\ result.fraud_risk_score < 50)
              => result.risk_category = "Medium"
        /\ result.fraud_risk_score < 25 => result.risk_category = "Low"

\* a score on the boundary 25, categorised Medium
C2_Witness ==
    /\ ApiCall
    /\ result.fraud_risk_score = 25
    /\ result.risk_category = "Medium"

\* the sum of the points of the rules whose condition holds on the input
C3_RulePoints ==
    Points(InputExcluded /\ InputRevenue > 0, 50)
        + Points(InputNotActive /\ InputRevenue > 0, 25)
        + Points(Len(InputAmounts) < 3 /\ InputRevenue > 100000, 10)
        + Points(Len(InputAmounts) >= 4 /\ HasOutlier(InputAmounts), 5)
        + Points(Len(InputAmounts) >= 2 /\ HighCV(InputAmounts), 5)

\* C3: with no classifier the returned score is min(100, sum of the points of
\* exactly the rules whose condition holds), each rule judged on the input alone.
C3_ScoreIsRuleSum ==
    (EngineCall /\ call.ml_model = NoModel /\ NumericInput)
        => (Returned /\ result.score = Num(Min(100, C3_RulePoints)))

\* rules 1, 2, 4 and 5 hold together and rule 3 does not
C3_Witness ==
    /\ EngineCall /\ call.ml_model = NoModel /\ NumericInput
    /\ InputExcluded /\ InputNotActive /\ InputRevenue > 100000
    /\ Len(InputAmounts) >= 4 /\ HasOutlier(InputAmounts) /\ HighCV(InputAmounts)
    /\ result.score = Num(85)

\* the locals the same call reaches with no classifier
RuleOnly == Evaluate(call.data, NoModel)

\* C4: whenever a classifier is supplied and returns probability p, for any
\* payment list, the empty one included, the pre-clamp score is the
\* rule-based sum plus p*100*0.2, and the ML factor is appended iff p > 0.8.
C4_BlendForAnyPayments ==
    (EngineCall /\ call.ml_model.kind = "proba")
        => /\ frame.score = Num(RuleOnly.score.n + call.ml_model.k)
           /\ (FML \in Range(frame.factors)) <=> (5 * call.ml_model.k > 80)

\* C5: a classifier that fails (raises, or returns malformed output) leaves
\* the call returning exactly what the same call returns with no classifier.
C5_FailureIsAbsence ==
    (EngineCall /\ call.ml_model.kind \in {"raises", "short", "text", "nan", "complex"})
        => result = calculate_fraud_risk(call.data, NoModel)

\* C6: a call given a non-numeric revenue or payment amount never returns a
\* computed score.
C6_InvalidInputRejected ==
    (EngineCall /\ ~NumericInput) => ~Returned

\* the factors in the order the rules are declared
FactorOrder == <<F1, F2, F3, F4, F5, FML>>

C7_IsListed(f) == f \in Range(frame.factors)

\* C7: the returned factor list holds the triggered rules in rule-declaration
\* order (rules 1 to 5, then the ML factor), each once.
C7_DeclarationOrder ==
    (EngineCall /\ Returned)
        => result.factors = Join(SelectSeq(FactorOrder, C7_IsListed))

\* four factors are listed, the ML factor among them
C7_Witness ==
    /\ EngineCall /\ Returned
    /\ Len(frame.factors) >= 4
    /\ FML \in Range(frame.factors)

\* Scenario A as the engine and as the API scorer receive it
C8_ScenarioAEngine ==
    /\ EngineCall /\ call.ml_model = NoModel
    /\ call.data["revenue"] = Num(600000)
    /\ call.data["capacity"] = 2
    /\ "status" \in DOMAIN call.data /\ call.data["status"] = "Active"
    /\ call.data["payments"] = <<>>

C8_ScenarioAApi ==
    /\ ApiCall
    /\ call.spending_data["total_spending"] = 600000
    /\ "Capacity" \in DOMAIN call.row /\ call.row["Capacity"] = <<"2">>
    /\ "License Status" \in DOMAIN call.row /\ call.row["License Status"] = "Active"
    /\ call.spending_data["payments"] = <<>>
    /\ call.spending_data["avg_payment"] = 0
    /\ call.spending_data["payment_variance"] = 5
    /\ ~call.spending_data["has_outliers"]

\* C8: Scenario A (revenue 600,000, capacity 2, Active, no payments) triggers
\* rule 6 (+40) and returns score 40, category Medium.
C8_ScenarioA ==
    /\ C8_ScenarioAEngine => (Returned /\ result.score = Num(40))
    /\ C8_ScenarioAApi
          => (result.fraud_risk_score = 40 /\ result.risk_category = "Medium")

\* Scenario B: an excluded identifier, revenue 10,000 and one payment
C9_ScenarioB ==
    /\ EngineCall /\ call.ml_model = NoModel
    /\ InputExcluded
    /\ call.data["revenue"] = Num(10000)
    /\ Len(call.data["payments"]) = 1

\* C9 as stated: Scenario B returns score 50 whatever the status.
C9_ScenarioBScores50 ==
    C9_ScenarioB => (Returned /\ result.score = Num(50))

\* C9 amended: Scenario B with status Active and no classifier triggers rule 1
\* alone and returns 50; with any other or a missing status rule 2 triggers
\* too and it returns 75; every call that returns for an excluded identifier
\* and revenue > 0, with no classifier or one returning a probability, scores
\* at least 50, which is High.
C9_ExcludedIsHigh ==
    /\ (C9_ScenarioB /\ ~InputNotActive)
          => (Returned /\ result.score = Num(50) /\ result.factors = F1)
    /\ (C9_ScenarioB /\ InputNotActive)
          => (Returned /\ result.score = Num(75))
    /\ (EngineCall /\ ProbabilityOrNone /\ Returned /\ InputExcluded
          /\ IsNum(call.data["revenue"]) /\ InputRevenue > 0)
          => (result.score.n >= 50 /\ RiskCategory(result.score.n) = "High")

\* Scenario B with status Active
C9_Witness ==
    /\ C9_ScenarioB /\ ~InputNotActive
    /\ result.score = Num(50)

\* C10: for Scenario D's fifteen payments the outlier rule and the variance
\* rule both trigger and rule 3 does not, so that with no classifier the score
\* is that of rules 1 and 2 plus exactly 10.
C10_ScenarioD ==
    (EngineCall /\ NumericInput /\ InputAmounts = ScenarioD)
        => /\ F4 \in Range(frame.factors)
           /\ F5 \in Range(frame.factors)
           /\ F3 \notin Range(frame.factors)
           /\ call.ml_model = NoModel
                 => /\ Returned
                    /\ result.score =
                         Num(Points(InputExcluded /\ InputRevenue > 0, 50)
                               + Points(InputNotActive /\ InputRevenue > 0, 25) + 10)

\* Scenario D scored with revenue above the threshold of rule 3
C10_Witness ==
    /\ EngineCall /\ call.ml_model = NoModel /\ NumericInput
    /\ InputAmounts = ScenarioD
    /\ InputRevenue > 100000
    /\ result.score = Num(10)

ApiAmounts ==
    [i \in 1..Len(call.spending_data["payments"]) |->
        call.spending_data["payments"][i].amount.n]

\* C11: too little payment data switches a detector off and fails nothing:
\* with fewer than 4 payments the outlier rule never triggers (nor does
\* generate_mock_spending flag outliers), with fewer than 2 payments or a mean
\* of 0 the variance rule never triggers, and the call still returns.
C11_InsufficientData ==
    /\ (EngineCall /\ NumericInput /\ ProbabilityOrNone)
          => /\ Len(InputAmounts) < 4 => (Returned /\ F4 \notin Range(frame.factors))
             /\ (Len(InputAmounts) < 2 \/ SumSeq(InputAmounts) = 0)
                   => (Returned /\ F5 \notin Range(frame.factors))
    /\ (ApiCall /\ Len(ApiAmounts) < 4) => ~MockHasOutliers(ApiAmounts)

\* three payments spread from 0 to 1000, no outlier factor
C11_Witness ==
    /\ EngineCall /\ NumericInput /\ call.ml_model = NoModel
    /\ Len(InputAmounts) = 3
    /\ 0 \in Range(InputAmounts) /\ 1000 \in Range(InputAmounts)
    /\ Returned
    /\ F4 \notin Range(frame.factors)

\* some value of the input is zero or missing
C12_Degenerate ==
    \/ InputRevenue = 0
    \/ call.data["capacity"] = 0
    \/ Len(InputAmounts) = 0
    \/ 0 \in Range(InputAmounts)
    \/ "ein" \notin DOMAIN call.data
    \/ "status" \notin DOMAIN call.data

\* C12: the call never crashes on zero or absent values: with revenue,
\* capacity, the payment count or an amount 0, or the identifier or status
\* missing, it returns a score and factor list, a missing status counting as
\* not Active.
C12_NoCrashOnZero ==
    (EngineCall /\ NumericInput /\ ProbabilityOrNone /\ C12_Degenerate)
        => /\ Returned
           /\ IsNum(result.score)
           /\ ("status" \notin DOMAIN call.data /\ InputRevenue > 0)
                 => F2 \in Range(frame.factors)

\* every value zero or missing: payments of 0 whose mean is 0
C12_Witness ==
    /\ EngineCall /\ NumericInput /\ call.ml_model = NoModel
    /\ InputRevenue = 0 /\ call.data["capacity"] = 0
    /\ Len(InputAmounts) >= 2 /\ Range(InputAmounts) = {0}
    /\ "ein" \notin DOMAIN call.data /\ "status" \notin DOMAIN call.data
    /\ Returned /\ result.score = Num(0)

\* C15: for non-negative amounts and no classifier rule 3 never triggers in
\* the same call as rule 4 or rule 5, so the rule-based score never exceeds 85
\* and min(score, 100) never changes it; a returned score of 100 needs a
\* classifier that contributes.
C15_RuleScoreBelowCeiling ==
    /\ (EngineCall /\ NumericInput /\ call.ml_model = NoModel)
          => /\ F3 \in Range(frame.factors)
                   => (F4 \notin Range(frame.factors) /\ F5 \notin Range(frame.factors))
             /\ frame.score.n <= 85
             /\ Returned /\ result.score = frame.score
    /\ (EngineCall /\ Returned /\ IsNum(result.score) /\ result.score.n = 100)
          => (call.ml_model.kind = "proba" /\ call.ml_model.k > 0)

\* rules 1, 2 and 3 trigger on two payments of different amounts: 85 points
C15_Witness ==
    /\ EngineCall /\ NumericInput /\ call.ml_model = NoModel
    /\ InputAmounts = <<0, 1000>>
    /\ frame.factors = <<F1, F2, F3>>
    /\ result.score = Num(85)

BenfordCall == call.fn = "benford"

C13_HasNonZeroDigit(number) ==
    /\ number.t = "num"
    /\ \E i \in 1..Len(number.text) : number.text[i] \in NonZeroDigitChars

\* the amounts of the call that have a non-zero digit
C13_Sample == SelectSeq(call.amounts, C13_HasNonZeroDigit)

\* C13: calculate_benford_deviation leaves every amount with no non-zero digit
\* out of the sample; when an amount remains it returns one entry per digit
\* 1..9 whose counts sum to the size of the sample (frequencies sum to 1), and
\* when none remains it returns a null report.
C13_BenfordReport ==
    BenfordCall =>
        IF C13_Sample = <<>> THEN result = NoReport
        ELSE /\ result.kind = "DataFrame"
             /\ DOMAIN result.rows = 1..9
             /\ \A d \in 1..9 :
                   /\ result.rows[d].digit = d
                   /\ result.rows[d].total_count = Len(C13_Sample)
             /\ SumSeq([d \in 1..9 |-> result.rows[d].actual_count]) = Len(C13_Sample)

\* 0 is left out and 0.05 and 907 are counted
C13_Witness ==
    /\ BenfordCall
    /\ call.amounts
         = <<Number(<<"0">>), Number(<<"0", ".", "0", "5">>), Number(<<"9", "0", "7">>)>>
    /\ result.kind = "DataFrame"
    /\ result.rows[5].actual_count = 1
    /\ result.rows[9].actual_count = 1

(***************************************************************************)
(* GET /high-risk and POST /reload-data                                    *)
(***************************************************************************)
HighRiskCall == call # Idle /\ call.fn = "GET /high-risk"

GetCall == call # Idle /\ call.fn \in {"GET /establishments", "GET /high-risk"}

\* the establishments of the frame a request read, unfiltered
Loaded == FilterLoop(call.df.rows, server.hash_seed, NoneParam, NoneParam, <<>>).body

ScoresOf(es) == [i \in 1..Len(es) |-> es[i].fraud_risk_score]

NonIncreasing(scores) ==
    \A i \in 1..Len(scores) : \A j \in i..Len(scores) : scores[i] >= scores[j]

Licenses(es) == {es[i].license_number : i \in 1..Len(es)}

\* no establishment left out scores strictly higher than one returned
NoneLeftOutHigher(all, returned) ==
    \A i \in 1..Len(all) :
        all[i].license_number \notin Licenses(returned)
            => \A j \in 1..Len(returned) :
                  all[i].fraud_risk_score <= returned[j].fraud_risk_score

\* C14: GET /high-risk with limit L over N loaded establishments responds
\* successfully with exactly min(L, N) establishments, in non-increasing
\* fraud_risk_score order, none left out scoring strictly higher than one
\* returned.
C14_HighRiskTopN ==
    (HighRiskCall /\ call.df.loaded)
        => /\ result.status = 200
           /\ Len(result.body) = Min(call.limit, Len(Loaded))
           /\ NonIncreasing(ScoresOf(result.body))
           /\ Licenses(result.body) \subseteq Licenses(Loaded)
           /\ NoneLeftOutHigher(Loaded, result.body)

\* C16: a request served while load_csv_data runs reads a licensing_df made
\* only of Minneapolis child-care rows, at every step of the load and also
\* when the load fails part-way.
C16_NoIntermediateDataset ==
    GetCall => \A i \in 1..Len(call.df.rows) : KeepRow(call.df.rows[i])
(***************************************************************************)
(* The ingestion run                                                       *)
(***************************************************************************)
RunOver == ingest.pc = "done"

\* what a run that raised nowhere leaves behind
CommittedOnce ==
    /\ ingest.stored = ingest.stored0 \cup Range(ingest.results)
    /\ ingest.commits = 1
    /\ Len(ingest.results) <= ingest.limit
    /\ Range(ingest.results) \cap ingest.stored0 = {}

NothingPersisted == ingest.stored = ingest.stored0 /\ ingest.commits = 0

\* C17 as stated: if a page fetch, JSON decode or scoring step raises, nothing
\* added is persisted; otherwise exactly the collected providers are
\* committed once, at most `limit` of them, none with an EIN stored before
\* the run; the session is closed in both cases.
C17_OtherwiseCommitted ==
    RunOver =>
        /\ ingest.closed
        /\ IF ingest.raised \in {"fetch", "decode", "scoring"}
           THEN NothingPersisted ELSE CommittedOnce

\* C17 amended: if any step of the run raises - a page fetch, JSON decode,
\* scoring, or db.commit() itself - nothing added
\* during the run is persisted; if none raises, exactly the collected
\* providers are committed once, at most `limit` of them, none with an EIN
\* stored before the run; nothing is persisted before the commit, and the
\* session is closed in both cases.
C17_AllOrNothing ==
    /\ ingest.pc \in {"while", "fetch", "for", "commit", "except"} => NothingPersisted
    /\ RunOver =>
          /\ ingest.closed
          /\ IF ingest.raised # "none" THEN NothingPersisted ELSE CommittedOnce

\* a run that added a provider and then raised, rolled back and closed
C17_Witness ==
    RunOver /\ ingest.raised \in {"fetch", "scoring"} /\ Len(ingest.results) >= 1
====
